---- MODULE Spec2Model ----
(***************************************************************************)
(* Model of main.py: the Arabic chat relay.                                *)
(*                                                                         *)
(*   ArabicChatbot      per-user conversation history (self.history)       *)
(*   ConnectionManager  registry client_id -> record, lock, keep-alive     *)
(*   websocket_endpoint the per-connection read loop                       *)
(*                                                                         *)
(* Every accepted websocket is one element of Conns.  Two asyncio tasks    *)
(* run for it: the endpoint handler and the keep-alive task.               *)
(* A step of the model is the code a task runs between two points where    *)
(* it gives control back to the event loop: asyncio.sleep, wait_for on     *)
(* receive_text, asyncio.to_thread, websocket.accept, a contended          *)
(* lock.acquire and websocket.close (which waits for the peer's close      *)
(* handshake).  websocket.send_json is taken to complete, or to raise,     *)
(* without giving control away.  A receive_text that is called after the   *)
(* server has closed the socket raises at once; one that was waiting when  *)
(* the server closed it ends with WebSocketDisconnect.                     *)
(***************************************************************************)
EXTENDS Integers, Sequences, FiniteSets, TLC

VARIABLES
    now,                 \* time.time(), in seconds
    history,             \* ArabicChatbot.history: user_id -> list of exchanges
    conversation,        \* get_response's local conversation: the list
                         \*   _get_conversation_history returned last
    appends,             \* number of _update_history calls so far (ghost)
    active_connections,  \* ConnectionManager.active_connections
    lock,                \* ConnectionManager.lock: the task holding it, or NoTask
    client_id,           \* websocket_endpoint's local client_id, per connection
    sock,                \* per connection: the WebSocket object and its transport
    wire,                \* per connection: n, the number of frames written to
                         \*   its socket so far, and last, the frame the last
                         \*   step wrote to it (NoFrame if it wrote none)
                         \*   (how many, and the last one)
    handler,             \* per connection: the endpoint task (pc and locals)
    keepalive,           \* per connection: the _keep_alive task (pc and locals)
    frames,              \* number of frames the handlers have taken (ghost)
    deregistered,        \* the client ids disconnect was called for (ghost)
    call                 \* the operation that returned in the last step (ghost)

vars == <<now, history, conversation, appends, active_connections, lock,
          client_id, sock, wire, handler, keepalive, frames, deregistered,
          call>>

storeVars == <<history, conversation, appends>>
netVars == <<active_connections, lock, client_id, sock, handler, keepalive,
             frames, deregistered>>

----------------------------------------------------------------------------
(* Bounds of the model.                                                    *)

\* the clock stops at MaxTime
MaxTime == 35
\* frames the clients send, all connections together
MaxFrames == 1
\* _update_history calls of the conversation-store specification
MaxAppends == 11
\* the clock of the silent-client specification stops at MaxSilentTime
MaxSilentTime == 100
\* frames written to one socket before a handler whose receive_text is
\* refused stops going round its loop
MaxWritten == 3

(* Program constants.                                                      *)

\* self.ping_interval
ping_interval == 25
\* self.timeout
timeout == 30
\* self.history[user_id][-10:]
HistoryCap == 10
\* self.history[user_id][-5:]
ContextExchanges == 5

\* the websockets the server accepts: two, so that they can get the same
\* client_id or different ones
Conns == {1, 2}
\* the users of the conversation-store specification
Users == {1, 2}
\* the new messages of the conversation-store specification
Queries == {"mq"}
\* message texts of at least 2 characters, as get_response requires
Msgs == {"ma", "mb"}
\* answers of the completion service that pass _clean_response and
\* _is_valid_response
Resps == {"ra"}

SystemPrompt == "system-instruction"

----------------------------------------------------------------------------
(* Sequence helpers: Python's list[-n:].                                   *)

Min(a, b) == IF a <= b THEN a ELSE b

LastN(s, n) ==
    IF Len(s) <= n THEN s ELSE SubSeq(s, Len(s) - n + 1, Len(s))

RECURSIVE Interleave(_)
\* the messages of a list of exchanges: user, assistant, user, assistant, ...
Interleave(s) ==
    IF s = <<>> THEN <<>>
    ELSE << [role |-> "user", content |-> Head(s).user],
            [role |-> "assistant", content |-> Head(s).bot] >>
         \o Interleave(Tail(s))

----------------------------------------------------------------------------
(* ArabicChatbot                                                           *)

\* a _get_conversation_history that adds the whole stored history
get_conversation_history_whole(h, user_id, new_message) ==
    << [role |-> "system", content |-> SystemPrompt] >>
    \o (IF user_id \in DOMAIN h THEN Interleave(h[user_id]) ELSE <<>>)
    \o << [role |-> "user", content |-> new_message] >>

\* _get_conversation_history: the list it returns
get_conversation_history(h, user_id, new_message) ==
    << [role |-> "system", content |-> SystemPrompt] >>
    \o (IF user_id \in DOMAIN h
        THEN Interleave(LastN(h[user_id], ContextExchanges))
        ELSE <<>>)
    \o << [role |-> "user", content |-> new_message] >>

\* a _get_conversation_history that reads with self.history.setdefault
history_after_setdefault(h, user_id) ==
    [u \in DOMAIN h \cup {user_id} |-> IF u \in DOMAIN h THEN h[u] ELSE <<>>]

\* _get_conversation_history: self.history after the call
history_after_get(h, user_id) == h

\* an _update_history without the slice [-10:]
update_history_unbounded(h, user_id, user_message, bot_response, t) ==
    LET old == IF user_id \in DOMAIN h THEN h[user_id] ELSE <<>>
        rec == [user |-> user_message, bot |-> bot_response, timestamp |-> t]
    IN  [u \in DOMAIN h \cup {user_id} |->
            IF u = user_id THEN Append(old, rec) ELSE h[u]]

\* an _update_history that slices [:10]
update_history_keep_first(h, user_id, user_message, bot_response, t) ==
    LET old == IF user_id \in DOMAIN h THEN h[user_id] ELSE <<>>
        rec == [user |-> user_message, bot |-> bot_response, timestamp |-> t]
        new == SubSeq(Append(old, rec), 1, Min(Len(old) + 1, HistoryCap))
    IN  [u \in DOMAIN h \cup {user_id} |-> IF u = user_id THEN new ELSE h[u]]

\* _update_history: self.history after the call
update_history(h, user_id, user_message, bot_response, t) ==
    LET old == IF user_id \in DOMAIN h THEN h[user_id] ELSE <<>>
        rec == [user |-> user_message, bot |-> bot_response, timestamp |-> t]
        new == LastN(Append(old, rec), HistoryCap)
    IN  [u \in DOMAIN h \cup {user_id} |-> IF u = user_id THEN new ELSE h[u]]

----------------------------------------------------------------------------
(* Values.                                                                 *)

H(i) == <<"H", i>>
K(i) == <<"K", i>>
NoTask == <<"none", 0>>

\* the texts the server sends besides the model's answers
TooShort == "apology-short"
InvalidAnswer == "apology-invalid"
Apology == "apology-error"
HandlerError == "apology-handler"
BadFormat == "invalid-format"

\* the message fields of the type=message frames a client sends: missing
\* or empty, white space only, one character, and a text get_response passes
\* on, bare and with white space around it
FrameTexts == {"", " ", "x", "ma", " ma "}

\* a get_response that does not strip the message
message_unstripped(m) == m

\* message.strip() in get_response, on the texts of FrameTexts
message_strip(m) ==
    CASE m = " ma " -> "ma"
      [] m = " " -> ""
      [] OTHER -> m

\* outcomes of the completion-service call, after cleaning and validation
Outcomes ==
    {[kind |-> "ok", text |-> r] : r \in Resps}
    \cup {[kind |-> "invalid", text |-> ""], [kind |-> "error", text |-> ""]}

NewSocket ==
    [client_state |-> "CONNECTING", application_state |-> "CONNECTING"]

\* The ghost record of the operation that returned in the last step:
\*   op      connect, send_message, send_ping, disconnect,
\*           get_conversation_history, update_history, or none
\*   conn    the connection whose task called it (the user, for the store)
\*   id      the client_id (user_id) it was called with
\*   result  what it returned
\*   sock    the socket it wrote to or registered, 0 if none
\*   text    the message it was called with
\*   dereg   what the disconnect that ended in this step found:
\*           absent, removed, or none when no disconnect ended
\*   read    the connection whose receive_text raised, in this step, an
\*           exception that is neither TimeoutError nor WebSocketDisconnect;
\*           0 if none did
\*   taken   the connection whose handler took, in this step, a frame that is
\*           a JSON object with type "message"; 0 if none did
Call(op, i, c, res, ws, m, dereg) ==
    [op |-> op, conn |-> i, id |-> c, result |-> res, sock |-> ws, text |-> m,
     dereg |-> dereg, read |-> 0, taken |-> 0]

NoCall == Call("none", 0, 0, "none", 0, "", "none")

----------------------------------------------------------------------------
(* The WebSocket object (starlette).                                       *)

\* websocket.send_json raises when a close message was already sent on the
\* socket, and it can raise whenever the transport to the peer is broken:
\*   broken: the transport fails this write
WriteFails(sk, ws, broken) ==
    sk[ws].application_state # "CONNECTED" \/ broken

\* websocket.close(): the socket is closed by the application; what close
\* raises is swallowed by disconnect
Closed(sk, ws) == [sk EXCEPT ![ws].application_state = "DISCONNECTED"]

\* the JSON objects send_json writes (the value of their timestamp field is
\* not modelled)
PingFrame == [type |-> "ping", message |-> ""]
MessageFrame(m) == [type |-> "message", message |-> m]

NoFrame == [type |-> "none", message |-> ""]

\* what websocket.send_text(m) would write: the text alone, in no JSON object
TextFrame(m) == [type |-> "text", message |-> m]

\* the sockets at the start of a step: what was written before has left
Flushed(wr) == [i \in DOMAIN wr |-> [wr[i] EXCEPT !.last = NoFrame]]

\* the sockets after one more frame was written to ws
Written(wr, ws, frame) == [wr EXCEPT ![ws] = [n |-> @.n + 1, last |-> frame]]

----------------------------------------------------------------------------
(* ConnectionManager                                                       *)

Registered(ac, c) == c \in DOMAIN ac

\* a connect or disconnect that enters its section without the lock
acquires_unlocked(l) == TRUE

\* async with self.lock: the task gets the lock when no task holds it
acquires(l) == l = NoTask

\* a disconnect that takes the lock with acquire() and does not release it
lock_exit_held(t) == t

\* the end of "async with self.lock" in the task t: the lock is released
lock_exit(t) == NoTask

\* del self.active_connections[client_id]
Remove(ac, c) == [x \in DOMAIN ac \ {c} |-> ac[x]]

\* connect: self.active_connections after the locked section
connect(ac, ws, c, t) ==
    [x \in DOMAIN ac \cup {c} |->
        IF x = c THEN [websocket |-> ws, last_ping |-> t, active |-> TRUE]
        ELSE ac[x]]

\* a disconnect that only marks the record inactive when the client has
\* already disconnected
disconnect_enter_no_del(ac, sk, c) ==
    IF ~Registered(ac, c)
    THEN [ac |-> ac, sk |-> sk, closing |-> FALSE, found |-> "absent"]
    ELSE IF sk[ac[c].websocket].client_state # "DISCONNECTED"
         THEN [ac |-> [ac EXCEPT ![c].active = FALSE],
               sk |-> Closed(sk, ac[c].websocket), closing |-> TRUE,
               found |-> "removed"]
         ELSE [ac |-> [ac EXCEPT ![c].active = FALSE], sk |-> sk,
               closing |-> FALSE, found |-> "removed"]

\* disconnect, from taking the lock to the await of websocket.close(), or to
\* its end when there is nothing to close:
\*   sk:      websocket.close() marks the socket closed by the application
\*            as soon as it is called, before it sends the close message
\*   closing: it now waits in websocket.close(), holding the lock
\*   found:   whether client_id was in self.active_connections
disconnect_enter(ac, sk, c) ==
    IF ~Registered(ac, c)
    THEN [ac |-> ac, sk |-> sk, closing |-> FALSE, found |-> "absent"]
    ELSE IF sk[ac[c].websocket].client_state # "DISCONNECTED"
         THEN [ac |-> [ac EXCEPT ![c].active = FALSE],
               sk |-> Closed(sk, ac[c].websocket), closing |-> TRUE,
               found |-> "removed"]
         ELSE [ac |-> Remove(ac, c), sk |-> sk, closing |-> FALSE,
               found |-> "removed"]

\* a disconnect without the del in its finally
disconnect_exit_no_del(ac, sk, c) ==
    [ac |-> ac, sk |-> Closed(sk, ac[c].websocket)]

\* disconnect, from the return of websocket.close() to the release of the lock
disconnect_exit(ac, sk, c) ==
    [ac |-> Remove(ac, c), sk |-> Closed(sk, ac[c].websocket)]

\* a send_message that writes with websocket.send_text(message)
send_message_send_text(ac, sk, wr, message, c, broken) ==
    IF ~Registered(ac, c)
    THEN [result |-> "false", why |-> "absent", wire |-> wr, ws |-> 0]
    ELSE LET ws == ac[c].websocket IN
         IF sk[ws].client_state = "DISCONNECTED"
         THEN [result |-> "false", why |-> "disconnected", wire |-> wr, ws |-> 0]
         ELSE IF WriteFails(sk, ws, broken)
         THEN [result |-> "raised", why |-> "raised", wire |-> wr, ws |-> 0]
         ELSE [result |-> "true", why |-> "sent", ws |-> ws,
               wire |-> Written(wr, ws, TextFrame(message))]

\* send_message up to its first return or to the call of disconnect:
\*   result "true", "false": it returned that; "raised": send_json raised and
\*   it goes on to disconnect(client_id), to return False after it
\*   why: "absent", "disconnected", "raised", or "sent"
send_message(ac, sk, wr, message, c, broken) ==
    IF ~Registered(ac, c)
    THEN [result |-> "false", why |-> "absent", wire |-> wr, ws |-> 0]
    ELSE LET ws == ac[c].websocket IN
         IF sk[ws].client_state = "DISCONNECTED"
         THEN [result |-> "false", why |-> "disconnected", wire |-> wr, ws |-> 0]
         ELSE IF WriteFails(sk, ws, broken)
         THEN [result |-> "raised", why |-> "raised", wire |-> wr, ws |-> 0]
         ELSE [result |-> "true", why |-> "sent", ws |-> ws,
               wire |-> Written(wr, ws, MessageFrame(message))]

\* send_message's return value after the disconnect that followed a raise
send_message_after_raise == "false"

\* a send_ping, and a _keep_alive, without the test of client_state
send_ping_unchecked(ac, sk, wr, c, t, broken) ==
    IF ~Registered(ac, c)
    THEN [result |-> "skip", ac |-> ac, wire |-> wr]
    ELSE LET ws == ac[c].websocket IN
         IF WriteFails(sk, ws, broken)
         THEN [result |-> "raised", ac |-> ac, wire |-> wr]
         ELSE [result |-> "sent",
               ac |-> [ac EXCEPT ![c].last_ping = t],
               wire |-> Written(wr, ws, PingFrame)]

\* send_ping (with _keep_alive's test of client_state before it) up to its
\* return or to the call of disconnect
send_ping(ac, sk, wr, c, t, broken) ==
    IF ~Registered(ac, c)
    THEN [result |-> "skip", ac |-> ac, wire |-> wr]
    ELSE LET ws == ac[c].websocket IN
         IF sk[ws].client_state = "DISCONNECTED"
         THEN [result |-> "skip", ac |-> ac, wire |-> wr]
         ELSE IF WriteFails(sk, ws, broken)
         THEN [result |-> "raised", ac |-> ac, wire |-> wr]
         ELSE [result |-> "sent",
               ac |-> [ac EXCEPT ![c].last_ping = t],
               wire |-> Written(wr, ws, PingFrame)]

\* a get_response that calls self._call_openai_chat(conversation) itself, on
\* the thread of the event loop: no task runs until the call has returned
loop_free_direct_call(h) == \A i \in DOMAIN h : h[i].pc # "complete"

\* get_response awaits asyncio.to_thread(self._call_openai_chat, ...): the
\* call runs on a worker thread, and the thread of the event loop is free to
\* run the other tasks, whatever the handlers h wait for
loop_free(h) == TRUE

\* the condition of _keep_alive's while loop
keep_alive_condition(ac, c) == Registered(ac, c) /\ ac[c].active

\* websocket_endpoint's staleness test after a read timeout
timed_out(ac, c, t) ==
    Registered(ac, c) /\ t - ac[c].last_ping > timeout * 2

----------------------------------------------------------------------------
(* Initial state: no connection accepted, no history.                      *)

NewHandler == [pc |-> "new", since |-> 0, message |-> "", ret |-> "none"]
NewKeepAlive == [pc |-> "none", since |-> 0]

Init ==
    /\ now = 0
    /\ history = [u \in {} |-> <<>>]
    /\ conversation = <<>>
    /\ appends = 0
    /\ active_connections = [c \in {} |-> 0]
    /\ lock = NoTask
    /\ client_id = [i \in Conns |-> 0]
    /\ sock = [i \in Conns |-> NewSocket]
    /\ wire = [i \in Conns |-> [n |-> 0, last |-> NoFrame]]
    /\ handler = [i \in Conns |-> NewHandler]
    /\ keepalive = [i \in Conns |-> NewKeepAlive]
    /\ frames = 0
    /\ deregistered = {}
    /\ call = NoCall

----------------------------------------------------------------------------
(* websocket_endpoint                                                      *)

\* the handler goes back to wait_for(websocket.receive_text(), timeout), the
\* sockets being sk: receive_text waits for a frame (pc "read") if the
\* application has not closed the socket, and raises at once, before it waits
\* for anything, if it has (pc "refused")
ReadingOn(i, sk) ==
    [handler EXCEPT ![i].pc = IF sk[i].application_state = "CONNECTED"
                              THEN "read" ELSE "refused",
                    ![i].since = now, ![i].message = ""]

\* the same in a step that leaves the sockets as they are
Reading(i) == ReadingOn(i, sock)

\* await manager.send_message(m, client_id), called by the handler of i for
\* the text frame it received
\*   failed: the connection whose receive_text raised (the send is the
\*           answer of the handler's "except Exception"), 0 if it returned
\*   taken:  the connection whose type=message frame the send answers in
\*           the step in which the handler took it, 0 if there is none
HandlerSendAfter(i, m, failed, taken) ==
    \E broken \in BOOLEAN :
    LET c == client_id[i]
        r == send_message(active_connections, sock, Flushed(wire), m, c, broken)
    IN  /\ wire' = r.wire
        /\ IF r.result = "raised"
           THEN /\ handler' = [handler EXCEPT ![i].pc = "lock", ![i].ret = "read",
                                              ![i].message = m]
                /\ deregistered' = deregistered \cup {c}
                /\ call' = [NoCall EXCEPT !.read = failed, !.taken = taken]
           ELSE /\ handler' = Reading(i)
                /\ deregistered' = deregistered
                /\ call' = [Call("send_message", i, c, r.result, r.ws, m, "none")
                               EXCEPT !.read = failed, !.taken = taken]

\* the same for a text frame that receive_text returned
HandlerSend(i, m) == HandlerSendAfter(i, m, 0, 0)

\* websocket_endpoint up to its read loop: client_id = f"client_{int(
\* time.time())}", then manager.connect: websocket.accept() and the locked
\* section, which has no await in it and starts the keep-alive task.
\* Connections are numbered in the order in which they arrive.
Endpoint(i) ==
    /\ handler[i].pc = "new"
    /\ loop_free(handler)
    /\ \A j \in Conns : j < i => handler[j].pc # "new"
    /\ acquires(lock)
    /\ client_id' = [client_id EXCEPT ![i] = now]
    /\ sock' = [sock EXCEPT ![i].client_state = "CONNECTED",
                            ![i].application_state = "CONNECTED"]
    /\ active_connections' = connect(active_connections, i, now, now)
    /\ keepalive' = [keepalive EXCEPT ![i] = [pc |-> "sleep", since |-> now]]
    /\ handler' = ReadingOn(i, sock')
    /\ call' = Call("connect", i, now,
                    IF Registered(active_connections, now)
                    THEN "overwrote" ELSE "new", i, "", "none")
    /\ wire' = Flushed(wire)
    /\ UNCHANGED <<now, frames, storeVars, lock, deregistered>>

\* a handler that starts get_response as a task of its own and reads on
can_receive_while_completing(h) == h.pc \in {"read", "complete"}

\* the handler h is at "await asyncio.wait_for(websocket.receive_text(), ...)":
\* it gets there only after the awaits of the frame before have returned
can_receive(h) == h.pc = "read"

\* receive_text takes a frame of the client, one of at most n
Taking(i, n) ==
    /\ can_receive(handler[i])
    /\ loop_free(handler)
    /\ frames < n
    /\ frames' = frames + 1

Receive(i) == Taking(i, MaxFrames)

\* what the handler does with the frame it took:

\* a frame {"type": "pong"}
OnPong(i) ==
    /\ active_connections' =
          IF Registered(active_connections, client_id[i])
          THEN [active_connections EXCEPT ![client_id[i]].last_ping = now]
          ELSE active_connections
    /\ handler' = Reading(i)
    /\ call' = NoCall
    /\ wire' = Flushed(wire)
    /\ UNCHANGED <<now, storeVars, lock, client_id, sock, keepalive,
                   deregistered>>

\* a frame that json.loads rejects
OnMalformed(i) ==
    /\ HandlerSend(i, BadFormat)
    /\ UNCHANGED <<now, storeVars, active_connections, lock, client_id, sock,
                   keepalive>>

\* a frame that is JSON but no object: data_json.get raises, and the handler's
\* "except Exception" answers
OnNonDict(i) ==
    /\ HandlerSend(i, HandlerError)
    /\ UNCHANGED <<now, storeVars, active_connections, lock, client_id, sock,
                   keepalive>>

\* a binary frame: its ASGI message has no "text", so receive_text raises
\* (KeyError), or returns None and json.loads raises TypeError; either is
\* caught by the handler's "except Exception", which answers, and the loop
\* goes on
OnBinary(i) ==
    /\ HandlerSendAfter(i, HandlerError, i, 0)
    /\ UNCHANGED <<now, storeVars, active_connections, lock, client_id, sock,
                   keepalive>>

\* a frame {"type": "message", "message": m}, up to the await of the
\* completion-service call in get_response
OnMessage(i, m) ==
    /\ IF m = ""
       THEN /\ handler' = Reading(i)
            /\ call' = [NoCall EXCEPT !.taken = i]
            /\ wire' = Flushed(wire)
            /\ UNCHANGED <<history, conversation, deregistered>>
       ELSE IF Len(message_strip(m)) < 2
       THEN /\ HandlerSendAfter(i, TooShort, 0, i)
            /\ UNCHANGED <<history, conversation>>
       ELSE /\ conversation' = get_conversation_history(history, client_id[i],
                                                        message_strip(m))
            /\ history' = history_after_get(history, client_id[i])
            /\ handler' = [handler EXCEPT ![i].pc = "complete",
                                          ![i].message = message_strip(m)]
            /\ call' = [Call("get_conversation_history", i, client_id[i], "none",
                             0, message_strip(m), "none") EXCEPT !.taken = i]
            /\ wire' = Flushed(wire)
            /\ UNCHANGED <<deregistered>>
    /\ UNCHANGED <<now, appends, active_connections, lock, client_id, sock, keepalive>>

RecvPong(i) == Receive(i) /\ OnPong(i)
RecvMalformed(i) == Receive(i) /\ OnMalformed(i)
RecvNonDict(i) == Receive(i) /\ OnNonDict(i)
RecvBinary(i) == Receive(i) /\ OnBinary(i)
RecvMessage(i, m) == Receive(i) /\ OnMessage(i, m)

\* the completion-service call returns or raises; get_response cleans and
\* validates the answer, stores the exchange, and the handler sends the reply
CompletionReturn(i, o) ==
    /\ handler[i].pc = "complete"
    /\ IF o.kind = "ok"
       THEN /\ history' = update_history(history, client_id[i], handler[i].message,
                                         o.text, now)
            /\ appends' = appends + 1
            /\ HandlerSend(i, o.text)
       ELSE /\ UNCHANGED <<history, appends>>
            /\ HandlerSend(i, IF o.kind = "invalid" THEN InvalidAnswer ELSE Apology)
    /\ conversation' = <<>>
    /\ UNCHANGED <<now, frames, active_connections, lock, client_id, sock, keepalive>>

\* asyncio.TimeoutError from wait_for
ReadTimeout(i) ==
    /\ handler[i].pc = "read"
    /\ loop_free(handler)
    /\ now >= handler[i].since + timeout
    /\ IF timed_out(active_connections, client_id[i], now)
       THEN /\ handler' = [handler EXCEPT ![i].pc = "lock", ![i].ret = "done"]
            /\ deregistered' = deregistered \cup {client_id[i]}
       ELSE /\ handler' = Reading(i)
            /\ deregistered' = deregistered
    /\ call' = NoCall
    /\ wire' = Flushed(wire)
    /\ UNCHANGED <<now, frames, storeVars, active_connections, lock, client_id, sock,
                   keepalive>>

\* WebSocketDisconnect from receive_text: the client closed, the transport
\* broke, or the server closed the socket
RecvDisconnect(i) ==
    /\ handler[i].pc = "read"
    /\ loop_free(handler)
    /\ sock' = [sock EXCEPT ![i].client_state = "DISCONNECTED"]
    /\ handler' = [handler EXCEPT ![i].pc = "lock", ![i].ret = "done"]
    /\ deregistered' = deregistered \cup {client_id[i]}
    /\ call' = NoCall
    /\ wire' = Flushed(wire)
    /\ UNCHANGED <<now, frames, storeVars, active_connections, lock, client_id,
                   keepalive>>

\* receive_text called on a socket the server has closed: it raises
\* RuntimeError, which is no WebSocketDisconnect, so the handler's "except
\* Exception" answers with send_message and the loop goes round again
RecvRefused(i) ==
    /\ handler[i].pc = "refused"
    /\ loop_free(handler)
    /\ \A j \in Conns : wire[j].n < MaxWritten
    /\ HandlerSendAfter(i, HandlerError, i, 0)
    /\ UNCHANGED <<now, frames, storeVars, active_connections, lock, client_id,
                   sock, keepalive>>

----------------------------------------------------------------------------
(* manager.disconnect(client_id), called by the handler: by send_message     *)
(* after send_json raised (ret = "read") and by the endpoint's finally       *)
(* (ret = "done").                                                           *)

\* disconnect returned to the handler; found: what it found in the registry,
\* sk: the sockets as it left them
HandlerReturn(i, found, sk) ==
    IF handler[i].ret = "read"
    THEN /\ handler' = ReadingOn(i, sk)
         /\ call' = Call("send_message", i, client_id[i], send_message_after_raise,
                         0, handler[i].message, found)
    ELSE /\ handler' = [handler EXCEPT ![i].pc = "done"]
         /\ call' = Call("disconnect", i, client_id[i], "none", 0, "", found)

HandlerDisconnect(i) ==
    /\ handler[i].pc = "lock"
    /\ loop_free(handler)
    /\ acquires(lock)
    /\ LET d == disconnect_enter(active_connections, sock, client_id[i]) IN
         /\ active_connections' = d.ac
         /\ sock' = d.sk
         /\ IF d.closing
            THEN /\ lock' = H(i)
                 /\ handler' = [handler EXCEPT ![i].pc = "close"]
                 /\ call' = NoCall
            ELSE /\ lock' = lock_exit(H(i))
                 /\ HandlerReturn(i, d.found, d.sk)
    /\ wire' = Flushed(wire)
    /\ UNCHANGED <<now, frames, storeVars, client_id, keepalive, deregistered>>

HandlerClose(i) ==
    /\ handler[i].pc = "close"
    /\ loop_free(handler)
    /\ LET d == disconnect_exit(active_connections, sock, client_id[i]) IN
         /\ active_connections' = d.ac
         /\ sock' = d.sk
    /\ lock' = lock_exit(H(i))
    /\ HandlerReturn(i, "removed", sock')
    /\ wire' = Flushed(wire)
    /\ UNCHANGED <<now, frames, storeVars, client_id, keepalive, deregistered>>

----------------------------------------------------------------------------
(* _keep_alive                                                              *)

\* back at the while condition
KeepAliveLoop(i, ac) ==
    IF keep_alive_condition(ac, client_id[i])
    THEN [keepalive EXCEPT ![i] = [pc |-> "sleep", since |-> now]]
    ELSE [keepalive EXCEPT ![i].pc = "done"]

\* asyncio.sleep(ping_interval) returns
KeepAliveWake(i) ==
    /\ keepalive[i].pc = "sleep"
    /\ loop_free(handler)
    /\ now >= keepalive[i].since + ping_interval
    /\ LET c == client_id[i] IN
       IF keep_alive_condition(active_connections, c)
       THEN \E broken \in BOOLEAN :
            LET r == send_ping(active_connections, sock, Flushed(wire), c, now, broken) IN
            /\ active_connections' = r.ac
            /\ wire' = r.wire
            /\ IF r.result = "raised"
               THEN /\ keepalive' = [keepalive EXCEPT ![i].pc = "lock"]
                    /\ deregistered' = deregistered \cup {c}
                    /\ call' = NoCall
               ELSE /\ keepalive' = KeepAliveLoop(i, r.ac)
                    /\ deregistered' = deregistered
                    /\ call' = Call("send_ping", i, c, r.result,
                                    IF r.result = "sent"
                                    THEN active_connections[c].websocket ELSE 0,
                                    "", "none")
       ELSE /\ keepalive' = KeepAliveLoop(i, active_connections)
            /\ call' = NoCall
            /\ wire' = Flushed(wire)
            /\ UNCHANGED <<active_connections, deregistered>>
    /\ UNCHANGED <<now, frames, storeVars, lock, client_id, sock, handler>>

\* manager.disconnect(client_id), called by send_ping after send_json raised
KeepAliveDisconnect(i) ==
    /\ keepalive[i].pc = "lock"
    /\ loop_free(handler)
    /\ acquires(lock)
    /\ LET d == disconnect_enter(active_connections, sock, client_id[i]) IN
         /\ active_connections' = d.ac
         /\ sock' = d.sk
         /\ IF d.closing
            THEN /\ lock' = K(i)
                 /\ keepalive' = [keepalive EXCEPT ![i].pc = "close"]
                 /\ call' = NoCall
            ELSE /\ lock' = lock_exit(K(i))
                 /\ keepalive' = KeepAliveLoop(i, d.ac)
                 /\ call' = Call("send_ping", i, client_id[i], "raised", 0, "",
                                 d.found)
    /\ wire' = Flushed(wire)
    /\ UNCHANGED <<now, frames, storeVars, client_id, handler, deregistered>>

KeepAliveClose(i) ==
    /\ keepalive[i].pc = "close"
    /\ loop_free(handler)
    /\ LET d == disconnect_exit(active_connections, sock, client_id[i]) IN
         /\ active_connections' = d.ac
         /\ sock' = d.sk
         /\ keepalive' = KeepAliveLoop(i, d.ac)
    /\ lock' = lock_exit(K(i))
    /\ call' = Call("send_ping", i, client_id[i], "raised", 0, "", "removed")
    /\ wire' = Flushed(wire)
    /\ UNCHANGED <<now, frames, storeVars, client_id, handler, deregistered>>

----------------------------------------------------------------------------
(* The clock.                                                               *)

\* the times at which the pending timers fire: wait_for's timeout of every
\* handler that is reading, asyncio.sleep of every keep-alive task
Deadlines ==
    {handler[i].since + timeout : i \in {j \in Conns : handler[j].pc = "read"}}
    \cup {keepalive[i].since + ping_interval :
             i \in {j \in Conns : keepalive[j].pc = "sleep"}}

\* the clock moves on to the next time at which a timer fires; a timer that
\* is due fires before the clock moves on
TickTo(limit) ==
    /\ Deadlines # {}
    /\ \A d \in Deadlines : d > now
    /\ \E d \in Deadlines :
          /\ \A e \in Deadlines : d <= e
          /\ d <= limit
          /\ now' = d
    /\ call' = NoCall
    /\ wire' = Flushed(wire)
    /\ UNCHANGED <<storeVars, netVars>>

Tick == TickTo(MaxTime)

----------------------------------------------------------------------------
(* The server.                                                              *)

Next ==
    \/ \E i \in Conns : Endpoint(i)
    \/ \E i \in Conns : RecvPong(i)
    \/ \E i \in Conns : RecvMalformed(i)
    \/ \E i \in Conns : RecvNonDict(i)
    \/ \E i \in Conns : RecvBinary(i)
    \/ \E i \in Conns, m \in FrameTexts : RecvMessage(i, m)
    \/ \E i \in Conns, o \in Outcomes : CompletionReturn(i, o)
    \/ \E i \in Conns : ReadTimeout(i)
    \/ \E i \in Conns : RecvDisconnect(i)
    \/ \E i \in Conns : RecvRefused(i)
    \/ \E i \in Conns : HandlerDisconnect(i)
    \/ \E i \in Conns : HandlerClose(i)
    \/ \E i \in Conns : KeepAliveWake(i)
    \/ \E i \in Conns : KeepAliveDisconnect(i)
    \/ \E i \in Conns : KeepAliveClose(i)
    \/ Tick

Spec == Init /\ [][Next]_vars

----------------------------------------------------------------------------
(* The conversation store on its own: _update_history and                   *)
(* _get_conversation_history called with any user and any texts.            *)

StoreAppend(u, m, r) ==
    /\ appends < MaxAppends
    /\ history' = update_history(history, u, m, r, now)
    /\ appends' = appends + 1
    /\ conversation' = <<>>
    /\ call' = Call("update_history", u, u, r, 0, m, "none")
    /\ UNCHANGED <<now, wire, netVars>>

StoreGetContext(u, m) ==
    /\ conversation' = get_conversation_history(history, u, m)
    /\ history' = history_after_get(history, u)
    /\ call' = Call("get_conversation_history", u, u, "none", 0, m, "none")
    /\ UNCHANGED <<now, appends, wire, netVars>>

NextStore ==
    \/ \E u \in Users, m \in Msgs, r \in Resps : StoreAppend(u, m, r)
    \/ \E u \in Users, m \in Queries : StoreGetContext(u, m)

SpecStore == Init /\ [][NextStore]_vars

----------------------------------------------------------------------------
(* The server with clients that send nothing after the handshake: no text   *)
(* frame and no close.  A handler's receive_text ends only by its timeout   *)
(* or because the server itself closed the socket.                          *)

ServerClosed(i) ==
    /\ sock[i].application_state = "DISCONNECTED"
    /\ RecvDisconnect(i)

TickSilent == TickTo(MaxSilentTime)

NextSilent ==
    \/ \E i \in Conns : Endpoint(i)
    \/ \E i \in Conns : ReadTimeout(i)
    \/ \E i \in Conns : ServerClosed(i)
    \/ \E i \in Conns : RecvRefused(i)
    \/ \E i \in Conns : HandlerDisconnect(i)
    \/ \E i \in Conns : HandlerClose(i)
    \/ \E i \in Conns : KeepAliveWake(i)
    \/ \E i \in Conns : KeepAliveDisconnect(i)
    \/ \E i \in Conns : KeepAliveClose(i)
    \/ TickSilent

SpecSilent == Init /\ [][NextSilent]_vars

----------------------------------------------------------------------------
(* The server with clients that send no text frame but may close their      *)
(* socket at any time, over the time of several pings.                      *)

NextQuiet ==
    \/ \E i \in Conns : Endpoint(i)
    \/ \E i \in Conns : ReadTimeout(i)
    \/ \E i \in Conns : RecvDisconnect(i)
    \/ \E i \in Conns : RecvRefused(i)
    \/ \E i \in Conns : HandlerDisconnect(i)
    \/ \E i \in Conns : HandlerClose(i)
    \/ \E i \in Conns : KeepAliveWake(i)
    \/ \E i \in Conns : KeepAliveDisconnect(i)
    \/ \E i \in Conns : KeepAliveClose(i)
    \/ TickSilent

SpecQuiet == Init /\ [][NextQuiet]_vars

----------------------------------------------------------------------------
(* Claims about the conversation store (SpecStore).                         *)

HistoryOf(u) == IF u \in DOMAIN history THEN history[u] ELSE <<>>

\* C6: after any sequence of _update_history calls for any users, the
\* history held for every user has at most 10 exchange records.
C6_HistoryAtMostTen ==
    \A u \in DOMAIN history : Len(history[u]) <= 10

\* an eleventh exchange was stored for one user, who still has ten
C6_Witness ==
    /\ call.op = "update_history"
    /\ appends = 11
    /\ DOMAIN history = {call.id}
    /\ Len(history[call.id]) = 10

\* C7: eviction is FIFO.  After _update_history(u, msg, resp) the history of
\* u is the old history of u followed by the new record, without its oldest
\* record if the old history already held 10; the new record carries msg,
\* resp and the current time; the histories of all other users are unchanged.
C7_FifoEviction ==
    [][ call'.op = "update_history" =>
          LET u == call'.id
              old == HistoryOf(u)
              rec == [user |-> call'.text, bot |-> call'.result,
                      timestamp |-> now]
          IN  /\ DOMAIN history' = DOMAIN history \cup {u}
              /\ history'[u] = IF Len(old) < 10 THEN Append(old, rec)
                               ELSE Append(Tail(old), rec)
              /\ \A v \in DOMAIN history \ {u} : history'[v] = history[v]
      ]_vars

\* the oldest of ten records was evicted: ten "ma" were stored for a user,
\* then an "mb", and the user holds nine "ma" followed by the "mb"
C7_Witness ==
    /\ call.op = "update_history"
    /\ appends = 11
    /\ DOMAIN history = {call.id}
    /\ Len(history[call.id]) = 10
    /\ \A k \in 1 .. 9 : history[call.id][k].user = "ma"
    /\ history[call.id][10].user = "mb"

\* C8: _get_conversation_history(u, m), for a user with n stored exchanges,
\* returns the system instruction, then the min(n, 5) most recent exchanges,
\* oldest first, each as its user text followed by its assistant text, then
\* m as the last user entry: 2 + 2 * min(n, 5) entries.
C8_ContextIsLastFive ==
    call.op = "get_conversation_history" =>
        LET h == HistoryOf(call.id)
            n == Len(h)
            k == Min(n, 5)
        IN  /\ Len(conversation) = 2 + 2 * k
            /\ conversation[1] = [role |-> "system", content |-> SystemPrompt]
            /\ \A j \in 1 .. k :
                  /\ conversation[2 * j] =
                        [role |-> "user", content |-> h[n - k + j].user]
                  /\ conversation[2 * j + 1] =
                        [role |-> "assistant", content |-> h[n - k + j].bot]
            /\ conversation[2 + 2 * k] = [role |-> "user", content |-> call.text]

\* the context of a user with more than 5 exchanges, whose sixth most recent
\* exchange has another text than its fifth most recent
C8_Witness ==
    /\ call.op = "get_conversation_history"
    /\ Len(HistoryOf(call.id)) = 7
    /\ HistoryOf(call.id)[2].user # HistoryOf(call.id)[3].user
    /\ Len(conversation) = 12

\* C9: _get_conversation_history is a pure read: it leaves the history of
\* every user as it was and creates no entry for a user that has none.
C9_GetContextIsPureRead ==
    [][ call'.op = "get_conversation_history" => history' = history ]_vars

\* the context of a user without history was built, while another user has
\* history
C9_Witness ==
    /\ call.op = "get_conversation_history"
    /\ call.id \notin DOMAIN history
    /\ DOMAIN history # {}
    /\ Len(conversation) = 2

----------------------------------------------------------------------------
(* Claims about the session registry (Spec).                                *)

\* the connection whose socket the record of c holds, 0 if c has no record
SocketOf(ac, c) == IF Registered(ac, c) THEN ac[c].websocket ELSE 0

\* C1: once connection i has registered its socket under c, and until
\* disconnect(c) is called, every send_message(m, c) its handler makes writes
\* m exactly once to the socket of i, to no other socket, and returns True.
C1_SendWritesOnceToOwnSocket ==
    [][ (call'.op = "send_message" /\ call'.id \notin deregistered') =>
          LET i == call'.conn IN
          /\ call'.result = "true"
          /\ wire'[i] = [n |-> wire[i].n + 1, last |-> MessageFrame(call'.text)]
          /\ \A j \in Conns \ {i} : wire'[j] = Flushed(wire)[j]
      ]_vars

\* C2: send_message never raises to its caller.  If c has no record or the
\* socket of its record is disconnected, it returns False, writes nothing and
\* leaves the registry unchanged; if the socket write raises, it returns
\* False only after disconnect(c), and c has no record when it returns.
C2_SendNeverRaises ==
    /\ [](call.op = "send_message" =>
            /\ call.result \in {"true", "false"}
            /\ call.dereg # "none" =>
                  call.result = "false" /\ ~Registered(active_connections, call.id))
    /\ [][ (call'.op = "send_message" /\ call'.dereg = "none") =>
             LET c == call'.id
                 ws == SocketOf(active_connections, c)
             IN  IF ws = 0 \/ sock[ws].client_state = "DISCONNECTED"
                 THEN /\ call'.result = "false"
                      /\ active_connections' = active_connections
                      /\ wire' = Flushed(wire)
                 ELSE /\ call'.result = "true"
                      /\ active_connections' = active_connections
         ]_vars

\* send_message returned False after its socket write raised and its
\* disconnect closed the socket and removed the record
C2_Witness ==
    /\ call.op = "send_message"
    /\ call.result = "false"
    /\ call.dereg = "removed"
    /\ sock[call.conn].application_state = "DISCONNECTED"

\* send_message returned False for a client_id without a record
C2_WitnessAbsent ==
    /\ call.op = "send_message"
    /\ call.result = "false"
    /\ call.dereg = "none"
    /\ ~Registered(active_connections, call.id)

\* C3: disconnect is idempotent.  When a disconnect(c) ends, c has no
\* record; a disconnect(c) that finds no record for c closes no socket,
\* writes nothing, changes no record and leaves the lock free, so a second
\* call in a row leaves the state the first one left.
C3_DisconnectIdempotent ==
    /\ [](call.dereg # "none" => ~Registered(active_connections, call.id))
    /\ [][ call'.dereg = "absent" =>
             /\ ~Registered(active_connections, call'.id)
             /\ active_connections' = active_connections
             /\ sock' = sock
             /\ wire' = Flushed(wire)
             /\ lock = NoTask /\ lock' = NoTask
         ]_vars

\* the endpoint's final disconnect found no record, because an earlier
\* disconnect of the same client_id had closed the socket and removed it
C3_Witness ==
    /\ call.op = "disconnect"
    /\ call.dereg = "absent"
    /\ call.id \in deregistered
    /\ sock[call.conn].application_state = "DISCONNECTED"
    /\ handler[call.conn].pc = "done"

\* C4: connect for a client_id that already has a record fails with
\* DuplicateConnection and leaves the record as it is.
C4_DuplicateConnectFails ==
    [][ (call'.op = "connect" /\ Registered(active_connections, call'.id)) =>
          /\ call'.result = "DuplicateConnection"
          /\ active_connections' = active_connections
      ]_vars

Open(i) ==
    sock[i].client_state = "CONNECTED" /\ sock[i].application_state = "CONNECTED"

\* C5 (the part "no open accepted socket is without a record"): every socket
\* that was accepted and is closed by neither side is the socket of a record.
C5_OpenSocketHasRecord ==
    \A i \in Conns :
        Open(i) => \E c \in DOMAIN active_connections :
                       active_connections[c].websocket = i

----------------------------------------------------------------------------
(* Claims about liveness detection (SpecSilent).                            *)

\* the second in which connection i was registered: its client_id
registered_at(i) == client_id[i]

\* C10: a registered connection whose client sends no frame for longer than
\* 2 * timeout is deregistered, even while the pings to it are written.  The
\* read loop times out every timeout seconds, so the first read timeout with
\* more than 2 * timeout of silence is the third one: later than
\* 3 * timeout after its registration, no silent client's handler is still in
\* its read loop with its record in the registry.
C10_SilentClientDeregistered ==
    \A i \in Conns :
        ( /\ handler[i].pc = "read"
          /\ Registered(active_connections, client_id[i])
          /\ active_connections[client_id[i]].websocket = i )
        => now - registered_at(i) <= 3 * timeout

----------------------------------------------------------------------------
(* Claims about the replies of the endpoint (Spec).                         *)

\* the record of the client_id of connection i holds the socket of i
HasRecord(i) ==
    /\ Registered(active_connections, client_id[i])
    /\ active_connections[client_id[i]].websocket = i

\* the step is a send_message(m, client_id) of the handler of i that returned
\* without a failure of the socket write
Replied(i, m) ==
    /\ call'.op = "send_message"
    /\ call'.conn = i
    /\ call'.text = m
    /\ call'.dereg = "none"

\* C11: when the completion-service call for a message frame of an open
\* connection raises, that connection's socket gets exactly one frame, the
\* message envelope with the fixed apology, the record of the connection
\* stays in the registry and the handler goes on reading.
C11_UpstreamErrorGetsApology ==
    [][ \A i \in Conns :
          (handler[i].pc = "complete" /\ Open(i) /\ Replied(i, Apology)) =>
             /\ wire'[i] = [n |-> wire[i].n + 1, last |-> MessageFrame(Apology)]
             /\ HasRecord(i)'
             /\ handler'[i].pc = "read"
      ]_vars

\* C12: for a frame that is not JSON, received on an open connection, that
\* connection's socket gets exactly one frame carrying the invalid-format
\* text, the completion service is not called, no history changes, the
\* record of the connection stays and the handler goes on reading.
C12_MalformedGetsInvalidFormat ==
    [][ \A i \in Conns :
          (handler[i].pc = "read" /\ Open(i) /\ Replied(i, BadFormat)) =>
             /\ wire'[i].n = wire[i].n + 1
             /\ wire'[i].last.message = BadFormat
             /\ history' = history
             /\ conversation' = conversation
             /\ HasRecord(i)'
             /\ handler'[i].pc = "read"
      ]_vars

\* C13, as claimed: the reply to a frame that is not JSON is written as a
\* raw text, in no JSON envelope.
C13_MalformedReplyIsRawText ==
    \A i \in Conns :
        wire[i].last.message = BadFormat => wire[i].last = TextFrame(BadFormat)

\* C13, amended: the reply to a frame that is not JSON is written by
\* send_message like every other reply, as the JSON envelope of type
\* "message" with the invalid-format text as its message; every frame the
\* server writes is a message envelope or a ping.
C13_MalformedReplyInEnvelope ==
    \A i \in Conns :
        /\ wire[i].last.message = BadFormat =>
              wire[i].last = MessageFrame(BadFormat)
        /\ wire[i].last # NoFrame => wire[i].last.type \in {"message", "ping"}

\* the reply to a malformed frame was just written
C13_Witness ==
    /\ call.op = "send_message"
    /\ call.text = BadFormat
    /\ call.result = "true"
    /\ wire[call.sock].last = MessageFrame(BadFormat)

----------------------------------------------------------------------------
(* GET /health                                                              *)

\* the names bound at module level when main.py has been imported: its
\* imports, classes, functions and assignments
ModuleGlobals ==
    {"FastAPI", "WebSocket", "WebSocketDisconnect", "WebSocketState",
     "CORSMiddleware", "HTMLResponse", "JSONResponse", "StaticFiles", "openai",
     "time", "asyncio", "json", "logging", "uvicorn", "Dict", "List",
     "datetime", "os", "traceback", "google_search", "app", "logger",
     "FARASA_AVAILABLE", "FarasaSegmenter", "FarasaPOSTagger", "FarasaStemmer",
     "ArabicChatbot", "chatbot", "ConnectionManager", "manager",
     "HTML_TEMPLATE", "get", "websocket_endpoint", "health_check"}

\* the global names health_check reads to build its response
HealthNames ==
    {"JSONResponse", "datetime", "MODEL_NAME", "DEVICE", "FARASA_AVAILABLE",
     "manager"}

\* health_check: the response the client gets.  Reading a global name that
\* is not bound raises NameError, which the framework answers with status 500.
health_check(ac, globals) ==
    IF HealthNames \subseteq globals
    THEN [status_code |-> 200,
          content |-> [status |-> "healthy", timestamp |-> now,
                       model |-> "MODEL_NAME", device |-> "DEVICE",
                       farasa_available |-> TRUE,
                       connections |-> Cardinality(DOMAIN ac)]]
    ELSE [status_code |-> 500, content |-> "Internal Server Error"]

\* a GET /health request is answered
Health ==
    /\ loop_free(handler)
    /\ call' = [Call("health_check", 0, 0, "none", 0, "", "none") EXCEPT
                   !.result = health_check(active_connections, ModuleGlobals)]
    /\ wire' = Flushed(wire)
    /\ UNCHANGED <<now, storeVars, netVars>>

NextHealth ==
    \/ Next
    \/ Health

SpecHealth == Init /\ [][NextHealth]_vars

\* C14: every GET /health, in every state of the server, is answered with
\* status 200 and a body with the fields status, timestamp, model, device,
\* farasa_available and connections, where connections is the number of
\* records in the registry.
C14_HealthAlways200 ==
    call.op = "health_check" =>
        /\ call.result.status_code = 200
        /\ DOMAIN call.result.content =
              {"status", "timestamp", "model", "device", "farasa_available",
               "connections"}
        /\ call.result.content.connections =
              Cardinality(DOMAIN active_connections)

\* connection j is served: its socket is open on both sides and the record
\* of its client_id holds it and is active
Serving(j) ==
    /\ Open(j)
    /\ HasRecord(j)
    /\ active_connections[client_id[j]].active

\* the step belongs to the endpoint's final manager.disconnect(client_id) of
\* connection i, whose client has closed its socket
TearsDown(i) ==
    /\ handler[i].ret = "done"
    /\ sock[i].client_state = "DISCONNECTED"
    /\ handler[i].pc \in {"lock", "close"}
    /\ handler'[i].pc # handler[i].pc

\* C15: failures are isolated per connection.  The teardown of a connection
\* whose client went away leaves every other connection that is served as it
\* is: its socket open, its record in the registry and active, its handler
\* and its keep-alive task where they were.
C15_TeardownIsolated ==
    [][ \A i, j \in Conns :
          (i # j /\ TearsDown(i) /\ Serving(j)) =>
             /\ Serving(j)'
             /\ handler'[j] = handler[j]
             /\ keepalive'[j] = keepalive[j]
      ]_vars

----------------------------------------------------------------------------
(* Text functions of ArabicChatbot.  A text is a sequence of characters;    *)
(* a character is a one-element string, or the name of an Arabic letter.    *)

\* longest text given to _clean_response
MaxTextLen == 4

NL == "\n"

\* the characters str.strip() removes, of those the texts are made of
IsSpace(ch) == ch \in {" ", NL}

CleanChars == {"a", "b", " ", NL}

CleanTexts == UNION {[1 .. n -> CleanChars] : n \in 0 .. MaxTextLen}

RECURSIVE lstrip(_)
lstrip(t) ==
    IF t = <<>> THEN <<>>
    ELSE IF IsSpace(Head(t)) THEN lstrip(Tail(t)) ELSE t

RECURSIVE rstrip(_)
rstrip(t) ==
    IF t = <<>> THEN <<>>
    ELSE IF IsSpace(t[Len(t)]) THEN rstrip(SubSeq(t, 1, Len(t) - 1)) ELSE t

\* str.strip()
strip(t) == rstrip(lstrip(t))

RECURSIVE split_lines(_)
\* text.split('\n')
split_lines(t) ==
    IF \A k \in 1 .. Len(t) : t[k] # NL THEN << t >>
    ELSE LET k == CHOOSE x \in 1 .. Len(t) :
                      t[x] = NL /\ \A y \in 1 .. x - 1 : t[y] # NL
         IN  << SubSeq(t, 1, k - 1) >> \o split_lines(SubSeq(t, k + 1, Len(t)))

RECURSIVE join_lines(_)
\* '\n'.join(lines)
join_lines(lines) ==
    IF lines = <<>> THEN <<>>
    ELSE IF Len(lines) = 1 THEN lines[1]
    ELSE lines[1] \o << NL >> \o join_lines(Tail(lines))

\* line.strip() is not empty
HasText(line) == strip(line) # <<>>

\* a _clean_response that requires more than 3 characters
clean_response_over_three(text) ==
    IF text = <<>> THEN <<>>
    ELSE LET stripped == strip(text)
             joined == join_lines(SelectSeq(split_lines(stripped), HasText))
         IN  IF Len(joined) <= 3 THEN <<>> ELSE joined

\* _clean_response
clean_response(text) ==
    IF text = <<>> THEN <<>>
    ELSE LET stripped == strip(text)
             joined == join_lines(SelectSeq(split_lines(stripped), HasText))
         IN  IF Len(joined) < 3 THEN <<>> ELSE joined

\* _clean_response is called once, with any text
CleanResponse(t) ==
    /\ call.op = "none"
    /\ call' = Call("clean_response", 0, 0, clean_response(t), 0, t, "none")
    /\ wire' = Flushed(wire)
    /\ UNCHANGED <<now, storeVars, netVars>>

\* str.lower() on one character: the ASCII capitals; Arabic letters have no
\* case
LowerOf ==
    [A |-> "a", B |-> "b", C |-> "c", D |-> "d", E |-> "e", F |-> "f",
     G |-> "g", H |-> "h", I |-> "i", J |-> "j", K |-> "k", L |-> "l",
     M |-> "m", N |-> "n", O |-> "o", P |-> "p", Q |-> "q", R |-> "r",
     S |-> "s", T |-> "t", U |-> "u", V |-> "v", W |-> "w", X |-> "x",
     Y |-> "y", Z |-> "z"]

\* str.lower()
lower(t) ==
    [k \in 1 .. Len(t) |-> IF t[k] \in DOMAIN LowerOf THEN LowerOf[t[k]] ELSE t[k]]

\* pattern in text
Contains(t, p) ==
    \E k \in 0 .. Len(t) - Len(p) : SubSeq(t, k + 1, k + Len(p)) = p

\* the list error_patterns of _is_valid_response, as written in the source
error_patterns ==
    { <<"I", "'", "m", " ", "s", "o", "r", "r", "y">>,
      <<"ayn", "dhal", "ra", "alif", "fathatan">>,
      <<"e", "r", "r", "o", "r">>,
      <<"kha", "tah", "alif-hamza">>,
      <<"e", "x", "c", "e", "p", "t", "i", "o", "n">> }

\* _is_valid_response
is_valid_response(text) ==
    IF text = <<>> THEN FALSE
    ELSE LET text_lower == lower(text)
         IN  ~ \E pattern \in error_patterns : Contains(text_lower, pattern)

\* number of pieces the texts given to _is_valid_response are made of
MaxPieces == 2

\* str.upper() on the ASCII letters
upper(t) ==
    [k \in 1 .. Len(t) |->
        IF \E u \in DOMAIN LowerOf : LowerOf[u] = t[k]
        THEN CHOOSE u \in DOMAIN LowerOf : LowerOf[u] = t[k]
        ELSE t[k]]

\* the pieces: every entry of the denylist as written, in small letters and
\* in capitals, and two harmless ones
Pieces ==
    error_patterns
    \cup {lower(p) : p \in error_patterns}
    \cup {upper(p) : p \in error_patterns}
    \cup { <<"o", "k">>, <<" ">> }

RECURSIVE Flatten(_)
Flatten(ps) == IF ps = <<>> THEN <<>> ELSE Head(ps) \o Flatten(Tail(ps))

ValidTexts ==
    {Flatten(ps) : ps \in UNION {[1 .. n -> Pieces] : n \in 0 .. MaxPieces}}

\* _is_valid_response is called once, with any text
IsValidResponse(t) ==
    /\ call.op = "none"
    /\ call' = Call("is_valid_response", 0, 0, is_valid_response(t), 0, t, "none")
    /\ wire' = Flushed(wire)
    /\ UNCHANGED <<now, storeVars, netVars>>

NextText ==
    \/ \E t \in CleanTexts : CleanResponse(t)
    \/ \E t \in ValidTexts : IsValidResponse(t)

SpecText == Init /\ [][NextText]_vars

----------------------------------------------------------------------------
(* Claims about the text functions (SpecText).                              *)

\* the lines of t that hold a character other than whitespace, joined, with
\* the whitespace before the first and after the last one removed
TrimmedLines(t) == strip(join_lines(SelectSeq(split_lines(t), HasText)))

\* C16: _clean_response(text) is the text with surrounding whitespace trimmed
\* and whitespace-only lines removed, or the empty text when that has fewer
\* than 3 characters.  The result is empty or at least 3 long, begins and
\* ends with a character that is no whitespace and has no line of whitespace
\* only; every text of at most 2 characters gives the empty text, and a text
\* of 3 characters without whitespace is returned as it is.
C16_CleanTrimsAndDropsShort ==
    call.op = "clean_response" =>
        LET t == call.text
            r == call.result
            e == TrimmedLines(t)
        IN  /\ r = IF Len(e) < 3 THEN <<>> ELSE e
            /\ r = <<>> \/ Len(r) >= 3
            /\ r # <<>> =>
                  /\ ~IsSpace(r[1]) /\ ~IsSpace(r[Len(r)])
                  /\ \A a, b \in 1 .. Len(r) :
                        (a < b /\ r[a] = NL /\ r[b] = NL) =>
                           \E k \in a + 1 .. b - 1 : ~IsSpace(r[k])
                  /\ SelectSeq(r, LAMBDA ch : ~IsSpace(ch))
                        = SelectSeq(t, LAMBDA ch : ~IsSpace(ch))
            /\ Len(t) <= 2 => r = <<>>
            /\ (Len(t) = 3 /\ \A k \in 1 .. 3 : ~IsSpace(t[k])) => r = t

\* a text with an empty line between two letters was cleaned to the two
\* letters on two lines, which is 3 characters long
C16_Witness ==
    /\ call.op = "clean_response"
    /\ call.text = <<"a", NL, NL, "b">>
    /\ call.result = <<"a", NL, "b">>

\* C17: _is_valid_response(text) is False if the text is empty or contains,
\* in any letter case, an entry of the denylist, whichever entry it is, and
\* True otherwise.
C17_ValidIffNoDenylistEntry ==
    call.op = "is_valid_response" =>
        call.result =
            ( /\ call.text # <<>>
              /\ \A p \in error_patterns :
                    ~Contains(lower(call.text), lower(p)) )

----------------------------------------------------------------------------
(* Claims about concurrency in the registry (Spec).                         *)

\* the tasks that wait in websocket.close(), inside disconnect
Closing ==
    {H(i) : i \in {j \in Conns : handler[j].pc = "close"}}
    \cup {K(i) : i \in {j \in Conns : keepalive[j].pc = "close"}}

\* the socket the disconnect(c) of the step begins to close, if the step is
\* a disconnect that goes into websocket.close()
BeginsClose(i) ==
    \/ handler[i].pc = "lock" /\ handler'[i].pc = "close"
    \/ keepalive[i].pc = "lock" /\ keepalive'[i].pc = "close"

\* C18: disconnect is safe under concurrency.  However the disconnect calls
\* of the read loop's send_message, of the keep-alive task and of the
\* endpoint's final cleanup interleave: no send_message ends otherwise than
\* by returning True or False; at most one task at a time is in
\* websocket.close(), and it holds the lock; websocket.close() is called only
\* on a socket the server has not closed before; and whenever a disconnect(c)
\* returns, c has no record.
C18_ConcurrentDisconnectSafe ==
    /\ [](/\ Cardinality(Closing) <= 1
          /\ \A t \in Closing : lock = t
          /\ Closing = {} =>
                (lock = NoTask /\ \A c \in DOMAIN active_connections :
                                     active_connections[c].active)
          /\ call.op = "send_message" => call.result \in {"true", "false"}
          /\ call.dereg # "none" => ~Registered(active_connections, call.id))
    /\ [][ \A i \in Conns :
             BeginsClose(i) =>
                /\ Closing = {}
                /\ sock[SocketOf(active_connections, client_id[i])]
                      .application_state = "CONNECTED"
         ]_vars

\* three calls for one client_id at once: the keep-alive task is inside
\* disconnect, waiting in websocket.close(); the handler's send_message has
\* had its write raise and waits for the lock to disconnect
C18_Witness ==
    \E i \in Conns :
        /\ keepalive[i].pc = "close"
        /\ lock = K(i)
        /\ handler[i].pc = "lock"
        /\ handler[i].ret = "read"

\* the step is a send_message of the handler of i: it looked client_id up in
\* active_connections and returned, or its write raised
SendsMessage(i) ==
    /\ handler[i].pc \in {"read", "complete"}
    /\ \/ call'.op = "send_message" /\ call'.conn = i /\ call'.dereg = "none"
       \/ handler'[i].pc = "lock" /\ handler'[i].ret = "read"

\* C19: send_message reads active_connections under the lock that serializes
\* connect and disconnect: it looks a record up, and writes to its socket,
\* only while no task holds the lock, so never while a disconnect is between
\* marking a record inactive and removing it.
C19_SendReadsUnderLock ==
    [][ \A i \in Conns :
          SendsMessage(i) =>
             /\ lock = NoTask
             /\ \A c \in DOMAIN active_connections : active_connections[c].active
      ]_vars

----------------------------------------------------------------------------
(* Claims about the keep-alive task (SpecQuiet).                            *)

\* the step is a send_ping of the keep-alive task of i that wrote its ping
Pinged(i) ==
    /\ call'.op = "send_ping"
    /\ call'.conn = i
    /\ call'.result = "sent"

\* C20: the keep-alive task of a connection writes a ping only when a whole
\* ping_interval has passed since it began to sleep, and only if at that
\* moment the record of its client_id is present and active and the record's
\* socket is not disconnected; no ping is written in any other way.  When
\* the write of a ping raises, send_ping returns with the record absent and
\* the task ended; an ended task stays ended, and once a task has ended no
\* ping is written for its client_id any more.
C20_KeepAlivePings ==
    /\ [][ \A i \in Conns :
             Pinged(i) =>
                LET c == client_id[i]
                    ws == SocketOf(active_connections, c)
                IN  /\ keepalive[i].pc = "sleep"
                    /\ now >= keepalive[i].since + ping_interval
                    /\ now >= registered_at(i) + ping_interval
                    /\ keep_alive_condition(active_connections, c)
                    /\ sock[ws].client_state # "DISCONNECTED"
                    /\ wire'[ws] = [n |-> wire[ws].n + 1, last |-> PingFrame]
         ]_vars
    /\ [][ \A j \in Conns :
             wire'[j].last = PingFrame => \E i \in Conns : Pinged(i)
         ]_vars
    /\ [](call.op = "send_ping" /\ call.result = "raised" =>
             /\ call.dereg # "none"
             /\ ~Registered(active_connections, call.id)
             /\ keepalive[call.conn].pc = "done")
    /\ [][ \A i \in Conns :
             keepalive[i].pc = "done" =>
                /\ keepalive'[i].pc = "done"
                /\ \A j \in Conns : Pinged(j) => client_id[j] # client_id[i]
         ]_vars

\* the first ping of the only connection was written a whole ping_interval
\* after its registration, and the write of its second ping, another ping_interval
\* later, raised: send_ping has disconnected the client_id, closed the
\* socket and removed the record, and the task has ended
C20_Witness ==
    /\ call.op = "send_ping"
    /\ call.result = "raised"
    /\ call.dereg = "removed"
    /\ now = registered_at(call.conn) + 2 * ping_interval
    /\ wire[call.conn].n = 1
    /\ \A j \in Conns \ {call.conn} : handler[j].pc = "new"
    /\ sock[call.conn].application_state = "DISCONNECTED"
    /\ keepalive[call.conn].pc = "done"

----------------------------------------------------------------------------
(* Claims about the end of the tasks (Spec).                                *)

\* the step is one of the keep-alive task of i, leaving its sleep
KeepAliveSteps(i) ==
    keepalive[i].pc = "sleep" /\ keepalive'[i] # keepalive[i]

\* C21: the keep-alive task that connect started for connection i ends once
\* the record that connect created is gone, however it was removed, and
\* never goes on for a record a later connect created under the same
\* client_id: when the task wakes from its sleep and the record of its
\* client_id is absent or holds another connection's socket, it ends without
\* writing a ping.
C21_KeepAliveEndsWithItsRecord ==
    [][ \A i \in Conns :
          (KeepAliveSteps(i) /\ ~HasRecord(i)) =>
             /\ keepalive'[i].pc = "done"
             /\ wire' = Flushed(wire)
      ]_vars

\* the handler of i has left its read loop for the endpoint's final
\* disconnect, or has returned
TornDown(i) ==
    handler[i].pc \in {"lock", "close", "done"} /\ handler[i].ret = "done"

\* C22: when the read of connection i ends in a close by the client or in a
\* read failure other than a read timeout, the handler leaves its read loop
\* for the final disconnect, which closes the connection and removes its
\* record; and whenever the handler of i has returned, no record holds the
\* socket of i.
C22_ReadEndClosesConnection ==
    /\ [][ \A i \in Conns :
             call'.read = i => handler'[i].pc = "lock" /\ handler'[i].ret = "done"
         ]_vars
    /\ [](\A i \in Conns :
             /\ sock[i].client_state = "DISCONNECTED" => TornDown(i)
             /\ handler[i].pc = "done" =>
                   \A c \in DOMAIN active_connections :
                       active_connections[c].websocket # i)

----------------------------------------------------------------------------
(* The server under the scheduling of the event loop: a task that can run   *)
(* is run.  The completion-service call returns, websocket.close() returns, *)
(* a due timer fires, a waiter gets the lock when it is released again and  *)
(* again, a read that waits on a socket the server has closed gets the      *)
(* disconnect.  Nothing is assumed about what the clients send, or when.    *)

Fairness ==
    \A i \in Conns :
        /\ WF_vars(\E o \in Outcomes : CompletionReturn(i, o))
        /\ WF_vars(ReadTimeout(i))
        /\ WF_vars(ServerClosed(i))
        /\ WF_vars(RecvRefused(i))
        /\ SF_vars(HandlerDisconnect(i))
        /\ WF_vars(HandlerClose(i))
        /\ WF_vars(KeepAliveWake(i))
        /\ SF_vars(KeepAliveDisconnect(i))
        /\ WF_vars(KeepAliveClose(i))

SpecFair == Init /\ [][Next]_vars /\ Fairness

\* the server has closed the socket of i and no record holds it
ServerDeregistered(i) ==
    /\ sock[i].application_state = "DISCONNECTED"
    /\ \A c \in DOMAIN active_connections : active_connections[c].websocket # i

\* C23: once the server has closed the socket of connection i and removed
\* its record, by the keep-alive task or after a failed send, the handler of
\* i returns at last; it does not go round its read loop for ever, also not
\* when the record went while it waited for the completion service.
C23_HandlerEndsAfterDeregistration ==
    \A i \in Conns : ServerDeregistered(i) ~> handler[i].pc = "done"

----------------------------------------------------------------------------
(* Claims about the tasks side by side (Spec).                              *)

\* the handlers that wait for the completion service
Completing == {i \in Conns : handler[i].pc = "complete"}

\* what the handler of b waits for has come, and its next step can be taken
HandlerCanStep(b) ==
    /\ ( /\ handler[b].pc = "new"
         /\ \A j \in Conns : j < b => handler[j].pc # "new"
         /\ lock = NoTask ) => ENABLED Endpoint(b)
    /\ (handler[b].pc = "read" /\ frames < MaxFrames) =>
          /\ ENABLED RecvPong(b)
          /\ ENABLED RecvMalformed(b)
          /\ ENABLED RecvNonDict(b)
          /\ ENABLED RecvBinary(b)
          /\ \A m \in FrameTexts : ENABLED RecvMessage(b, m)
    /\ handler[b].pc = "read" => ENABLED RecvDisconnect(b)
    /\ (handler[b].pc = "read" /\ now >= handler[b].since + timeout) =>
          ENABLED ReadTimeout(b)
    /\ (handler[b].pc = "lock" /\ lock = NoTask) => ENABLED HandlerDisconnect(b)
    /\ handler[b].pc = "close" => ENABLED HandlerClose(b)

\* the same for the keep-alive task of k
KeepAliveCanStep(k) ==
    /\ (keepalive[k].pc = "sleep" /\ now >= keepalive[k].since + ping_interval) =>
          ENABLED KeepAliveWake(k)
    /\ (keepalive[k].pc = "lock" /\ lock = NoTask) => ENABLED KeepAliveDisconnect(k)
    /\ keepalive[k].pc = "close" => ENABLED KeepAliveClose(k)

----------------------------------------------------------------------------
(* Claims about the frames of one connection (Spec).                        *)

\* the step is a call of send_message by the handler of i: it returned, or
\* its write raised and it goes on to disconnect
SendAttempted(i) ==
    \/ call'.op = "send_message" /\ call'.conn = i /\ call'.dereg = "none"
    \/ handler[i].pc # "lock" /\ handler'[i].pc = "lock" /\ handler'[i].ret = "read"

\* C25: every frame that is a JSON object with type "message", taken by the
\* handler of a connection, whatever its message field (also an empty or a
\* missing one), starts get_response and is answered by a send_message to
\* the connection: in the step that takes it, or, when get_response calls
\* the completion service, in the step in which that call returns.
C25_MessageFrameGetsOneReply ==
    [][ \A i \in Conns :
          /\ call'.taken = i => (SendAttempted(i) \/ handler'[i].pc = "complete")
          /\ (handler[i].pc = "complete" /\ handler'[i].pc # "complete") =>
                SendAttempted(i)
      ]_vars

----------------------------------------------------------------------------
(* Claims about the liveness timestamp (Spec).                              *)

\* the step leaves the record of c in place and changes its last_ping
LastPingChanges(c) ==
    /\ Registered(active_connections, c)
    /\ Registered(active_connections', c)
    /\ active_connections'[c].websocket = active_connections[c].websocket
    /\ active_connections'[c].last_ping # active_connections[c].last_ping

\* the step is the handler of a connection with client_id c taking a frame
FrameTakenFor(c) ==
    /\ frames' = frames + 1
    /\ \E i \in Conns : client_id[i] = c /\ handler[i].pc = "read"

\* C26: the last_ping of a record is the time of its connect, and afterwards
\* it changes only in a step in which the handler takes a frame of the
\* client (a pong); no other step changes it, and writing a ping or a reply
\* to the client does not.
C26_LastPingOnlyByPong ==
    [][ /\ call'.op = "connect" =>
              active_connections'[call'.id].last_ping = now
        /\ \A c \in DOMAIN active_connections :
              LastPingChanges(c) =>
                 /\ FrameTakenFor(c)
                 /\ wire' = Flushed(wire)
      ]_vars

----------------------------------------------------------------------------
(* Claims about get_response and the history (Spec).                        *)

\* the texts of FrameTexts that have no white space around them
Trimmed == {"", "x", "ma"}

\* the text that the send_message of this step, by the handler of i, was
\* called with
SentText(i) ==
    IF call'.op = "send_message" THEN call'.text ELSE handler'[i].message

\* the step is the return of get_response to the handler of i, after the
\* completion-service call
Returns(i) == handler[i].pc = "complete" /\ handler'[i].pc # "complete"

----------------------------------------------------------------------------
(* The server with clients that send no frame but may close their socket at *)
(* any time, over the time of the first ping and the first read timeout,    *)
(* under the scheduling of the event loop.                                  *)

NextCalm ==
    \/ \E i \in Conns : Endpoint(i)
    \/ \E i \in Conns : ReadTimeout(i)
    \/ \E i \in Conns : RecvDisconnect(i)
    \/ \E i \in Conns : RecvRefused(i)
    \/ \E i \in Conns : HandlerDisconnect(i)
    \/ \E i \in Conns : HandlerClose(i)
    \/ \E i \in Conns : KeepAliveWake(i)
    \/ \E i \in Conns : KeepAliveDisconnect(i)
    \/ \E i \in Conns : KeepAliveClose(i)
    \/ Tick

SpecCalmFair == Init /\ [][NextCalm]_vars /\ Fairness

----------------------------------------------------------------------------
(* Claims about the lock (SpecCalmFair).                                    *)

\* the tasks that wait for the lock, to enter disconnect
LockWaiters ==
    {H(i) : i \in {j \in Conns : handler[j].pc = "lock"}}
    \cup {K(i) : i \in {j \in Conns : keepalive[j].pc = "lock"}}

----------------------------------------------------------------------------
(* One client that sends several frames one after the other, within the     *)
(* second of its connect.                                                   *)

\* frames the client sends
MaxStreamFrames == 3

\* the connection of the client
Streamer == 1

StreamPong == Taking(Streamer, MaxStreamFrames) /\ OnPong(Streamer)
StreamMalformed == Taking(Streamer, MaxStreamFrames) /\ OnMalformed(Streamer)
StreamNonDict == Taking(Streamer, MaxStreamFrames) /\ OnNonDict(Streamer)
StreamBinary == Taking(Streamer, MaxStreamFrames) /\ OnBinary(Streamer)
StreamMessage(m) == Taking(Streamer, MaxStreamFrames) /\ OnMessage(Streamer, m)

NextStream ==
    \/ Endpoint(Streamer)
    \/ StreamPong
    \/ StreamMalformed
    \/ StreamNonDict
    \/ StreamBinary
    \/ \E m \in FrameTexts : StreamMessage(m)
    \/ \E o \in Outcomes : CompletionReturn(Streamer, o)
    \/ RecvDisconnect(Streamer)
    \/ RecvRefused(Streamer)
    \/ HandlerDisconnect(Streamer)
    \/ HandlerClose(Streamer)

SpecStream == Init /\ [][NextStream]_vars

----------------------------------------------------------------------------
(* Claims about the order of the frames (SpecStream).                       *)

\* the handlers that have a call of get_response, or the send_message of
\* its answer and the disconnect after it, not yet finished
Busy == {i \in Conns : handler[i].pc \in {"complete", "lock", "close"}}

\* C29: the handler of a connection handles its frames one at a time, in
\* the order in which they arrive.  A frame is taken only by a handler that
\* waits in receive_text, so never while the completion call, the send of
\* the reply or the disconnect after a failed send of the frame before is
\* unfinished; a completion call starts only in the step that takes a
\* type=message frame, so a connection has at most one in flight; the call
\* ends with the send of its reply; and every message frame written to the
\* socket is the reply to the frame taken last.
C29_FramesOneAtATime ==
    [][ /\ frames' # frames =>
              \E i \in Conns \ Busy :
                  /\ handler[i].pc = "read"
                  /\ \A j \in Conns \ {i} : handler'[j] = handler[j]
        /\ \A i \in Conns :
              /\ (handler[i].pc # "complete" /\ handler'[i].pc = "complete") =>
                    (handler[i].pc = "read" /\ call'.taken = i /\ frames' = frames + 1)
              /\ Returns(i) => (SendAttempted(i) /\ frames' = frames)
              /\ wire'[i].last.type = "message" =>
                    /\ wire'[i].n = wire[i].n + 1
                    /\ \/ Returns(i) /\ wire'[i].last.message \in Resps \cup {InvalidAnswer, Apology}
                       \/ frames' = frames + 1 /\ handler[i].pc = "read"
      ]_vars

\* the client has sent three frames and each has got its reply before the
\* next was taken: three replies are written, the last one just now, and
\* one of them was the answer of the completion service, now in the history
C29_Witness ==
    /\ frames = 3
    /\ wire[Streamer].n = 3
    /\ call.op = "send_message"
    /\ call.result = "true"
    /\ call.conn = Streamer
    /\ handler[Streamer].pc = "read"
    /\ client_id[Streamer] \in DOMAIN history
    /\ Len(history[client_id[Streamer]]) = 1

====
